---- MODULE Spec2Model ----
(***************************************************************************)
(* A model of crewai-scheduler: the planner-text parser (agents.py), the   *)
(* persistence gateway and the calendar notification (async_io.py) and the *)
(* orchestration of one run (main.py).                                     *)
(*                                                                         *)
(* Strings are sequences of one-character strings.  Timestamps are         *)
(* minutes since midnight.  An optional value is <<>> (None) or <<v>>.     *)
(***************************************************************************)
EXTENDS Integers, Sequences, FiniteSets, TLC

VARIABLES
    pc,             \* position of async_main / plan_and_execute
    planner_text,   \* str(result) of crew.kickoff
    kickoff,        \* outcome of crew.kickoff: "pending", "ok", "failed"
    schedule,       \* the Schedule held by the caller
    reparsed,       \* result of a second parser pass over the descriptions
    file,           \* the record at the output path
    json_str,       \* save_schedule's local json_str
    buffer,         \* what save_schedule's open file object holds unflushed
    savePc,         \* position of save_schedule
    notifyPc,       \* position of mock_async_calendar_block
    notifyIdx,      \* index of the SubTask the notification loop is at
    attempts,       \* attempts[i]: reservation attempts made for SubTask i
    pretty,         \* the human-readable export
    loadPc,         \* position of load_schedule
    handle,         \* content behind load_schedule's open file object
    loadResult      \* what load_schedule returned or raised

vars == <<pc, planner_text, kickoff, schedule, reparsed, file, json_str, buffer,
          savePc, notifyPc, notifyIdx, attempts, pretty, loadPc, handle, loadResult>>

-----------------------------------------------------------------------------
(* Bounds *)

MaxLen == 5
MaxSubtasks == 2

-----------------------------------------------------------------------------
(* Characters and Python's str helpers *)

NL == "\n"
TAB == "\t"
SP == " "
DASH == "-"
DOT == "."

DigitSeq == <<"0", "1", "2", "3", "4", "5", "6", "7", "8", "9">>

\* What \d matches (ASCII digits).
Digits == {DigitSeq[i] : i \in 1..10}

\* The characters planner texts are drawn from.
Chars == {"1", DOT, DASH, SP, TAB, "x", NL}

\* str.strip() with no argument strips whitespace.
Whitespace == {SP, TAB, NL}

\* The argument of ln.strip("- ").
BulletChars == {DASH, SP}

None == <<>>
Some(v) == <<v>>

RECURSIVE LStrip(_, _)
LStrip(s, cs) ==
    IF s # <<>> /\ Head(s) \in cs THEN LStrip(Tail(s), cs) ELSE s

RECURSIVE RStrip(_, _)
RStrip(s, cs) ==
    IF s # <<>> /\ s[Len(s)] \in cs THEN RStrip(SubSeq(s, 1, Len(s) - 1), cs) ELSE s

Strip(s, cs) == RStrip(LStrip(s, cs), cs)

RECURSIVE FirstBreak(_, _)
FirstBreak(s, i) ==
    IF i > Len(s) \/ s[i] = NL THEN i ELSE FirstBreak(s, i + 1)

\* str.splitlines(): a final line break does not open a further line.
RECURSIVE SplitLines(_)
SplitLines(s) ==
    IF s = <<>> THEN <<>>
    ELSE LET i == FirstBreak(s, 1)
         IN  <<SubSeq(s, 1, i - 1)>> \o
             (IF i >= Len(s) THEN <<>> ELSE SplitLines(SubSeq(s, i + 1, Len(s))))

\* "\n".join(parts)
RECURSIVE Join(_)
Join(parts) ==
    IF parts = <<>> THEN <<>>
    ELSE IF Len(parts) = 1 THEN parts[1]
    ELSE parts[1] \o <<NL>> \o Join(Tail(parts))

-----------------------------------------------------------------------------
(* Domain model *)

\* main.py lines 47-50: description=args.description or args.title
Goal(title, description) ==
    [title |-> title, description |-> IF description = <<>> THEN title ELSE description]

\* The goals a run is started with.
Goals == {Goal(<<"x">>, <<>>), Goal(<<"g", SP, "1">>, <<"1", DOT, TAB, "x">>)}

SubTask(id, goal_title, description, order) ==
    [id |-> id, goal_title |-> goal_title, description |-> description,
     order |-> order, estimate_minutes |-> None,
     scheduled_start |-> None, scheduled_end |-> None]

Schedule(goal, subtasks) == [goal |-> goal, subtasks |-> subtasks]

EmptySchedule == Schedule(Goal(<<"x">>, <<>>), <<>>)

DefaultDuration == 30

-----------------------------------------------------------------------------
(* agents.py: the parser *)

\* [ln.strip("- ").strip() for ln in text.splitlines() if ln.strip()]
CleanLines(text) ==
    LET raw  == SplitLines(text)
        kept == SelectSeq(raw, LAMBDA ln : Strip(ln, Whitespace) # <<>>)
    IN  [i \in 1..Len(kept) |-> Strip(Strip(kept[i], BulletChars), Whitespace)]

RECURSIVE DigitRun(_, _)
DigitRun(line, k) ==
    IF k < Len(line) /\ line[k + 1] \in Digits THEN DigitRun(line, k + 1) ELSE k

\* Mutant: the pattern without its period, r"^\d+".
NumberedItem_NoDot(line) == DigitRun(line, 0) >= 1

\* re.compile(r"^\d+\.").match(line)
NumberedItem(line) ==
    LET k == DigitRun(line, 0)
    IN  k >= 1 /\ k < Len(line) /\ line[k + 1] = DOT

DigitChar(d) == DigitSeq[d + 1]

DigitVal(c) == (CHOOSE i \in 1..10 : DigitSeq[i] = c) - 1

\* str(n) for n >= 0
RECURSIVE Decimal(_)
Decimal(n) ==
    IF n < 10 THEN <<DigitChar(n)>> ELSE Decimal(n \div 10) \o <<DigitChar(n % 10)>>

\* int(s) for a string of digits
RECURSIVE ParseInt(_)
ParseInt(s) ==
    IF s = <<>> THEN 0 ELSE 10 * ParseInt(SubSeq(s, 1, Len(s) - 1)) + DigitVal(s[Len(s)])

\* f"task-{idx}"
TaskId(idx) == <<"t", "a", "s", "k", "-">> \o Decimal(idx)

RECURSIVE ParseLoop(_, _, _)
ParseLoop(lines, idx, goal) ==
    IF idx > Len(lines) THEN <<>>
    ELSE (IF NumberedItem(lines[idx])
          THEN <<SubTask(TaskId(idx), goal.title, lines[idx], idx)>>
          ELSE <<>>)
         \o ParseLoop(lines, idx + 1, goal)

RECURSIVE OwnNumberLoop(_, _, _)
OwnNumberLoop(lines, idx, goal) ==
    IF idx > Len(lines) THEN <<>>
    ELSE (IF NumberedItem(lines[idx])
          THEN LET own == ParseInt(SubSeq(lines[idx], 1, DigitRun(lines[idx], 0)))
               IN  <<SubTask(TaskId(own), goal.title, lines[idx], own)>>
          ELSE <<>>)
         \o OwnNumberLoop(lines, idx + 1, goal)

\* Mutant: id and order taken from the item's own number, not from enumerate.
_subtasks_by_own_number(text, goal) == OwnNumberLoop(CleanLines(text), 1, goal)

_subtasks_from_llm_output(text, goal) == ParseLoop(CleanLines(text), 1, goal)

_schedule_from_executor_output(text, goal, original_subtasks) ==
    Schedule(goal, original_subtasks)

Descriptions(subtasks) == [i \in 1..Len(subtasks) |-> subtasks[i].description]

-----------------------------------------------------------------------------
(* models.py: Schedule.with_time_blocks, model_dump, model_validate *)

RECURSIVE SortByOrder(_)
SortByOrder(tasks) ==
    IF tasks = <<>> THEN <<>>
    ELSE LET m == CHOOSE i \in 1..Len(tasks) :
                      \A j \in 1..Len(tasks) :
                          tasks[i].order < tasks[j].order
                          \/ (tasks[i].order = tasks[j].order /\ i <= j)
         IN  <<tasks[m]>> \o
             SortByOrder([k \in 1..(Len(tasks) - 1) |->
                              IF k < m THEN tasks[k] ELSE tasks[k + 1]])

Duration(task) ==
    IF task.estimate_minutes = None THEN DefaultDuration ELSE task.estimate_minutes[1]

RECURSIVE Pack(_, _)
Pack(tasks, cursor) ==
    IF tasks = <<>> THEN <<>>
    ELSE LET t   == Head(tasks)
             end == cursor + Duration(t)
         IN  <<[t EXCEPT !.scheduled_start = Some(cursor), !.scheduled_end = Some(end)]>>
             \o Pack(Tail(tasks), end)

with_time_blocks(sched, start) ==
    Schedule(sched.goal, Pack(SortByOrder(sched.subtasks), start))

Pad2(n) == <<DigitChar(n \div 10), DigitChar(n % 10)>>

\* datetime.isoformat(), to the minute: "HH:MM"
IsoFormat(t) == Pad2(t \div 60) \o <<":">> \o Pad2(t % 60)

\* datetime.fromisoformat()
FromIso(s) == ParseInt(SubSeq(s, 1, 2)) * 60 + ParseInt(SubSeq(s, 4, 5))

OptIso(t) == IF t = None THEN None ELSE Some(IsoFormat(t[1]))
OptFromIso(s) == IF s = None THEN None ELSE Some(FromIso(s[1]))

\* Schedule.model_dump(mode="json"): datetimes become ISO strings.
model_dump(sched) ==
    [goal |-> sched.goal,
     subtasks |-> [i \in 1..Len(sched.subtasks) |->
         [sched.subtasks[i] EXCEPT
             !.scheduled_start = OptIso(sched.subtasks[i].scheduled_start),
             !.scheduled_end = OptIso(sched.subtasks[i].scheduled_end)]]]

\* Schedule.model_validate(data): ISO strings become datetimes.
model_validate(data) ==
    [goal |-> data.goal,
     subtasks |-> [i \in 1..Len(data.subtasks) |->
         [data.subtasks[i] EXCEPT
             !.scheduled_start = OptFromIso(data.subtasks[i].scheduled_start),
             !.scheduled_end = OptFromIso(data.subtasks[i].scheduled_end)]]]

-----------------------------------------------------------------------------
(* json.dumps / json.loads: a JSON text is a sequence of tokens *)

Punct(c) == <<"punct", c>>
Key(k) == <<"key", k>>
JNull == <<"null">>

Escape(c) == IF c = TAB THEN "\\t" ELSE IF c = NL THEN "\\n" ELSE c
Unescape(e) == IF e = "\\t" THEN TAB ELSE IF e = "\\n" THEN NL ELSE e

JStr(s) == <<"str", [i \in 1..Len(s) |-> Escape(s[i])]>>
JNum(n) == <<"num", Decimal(n)>>
JOptStr(o) == IF o = None THEN JNull ELSE JStr(o[1])
JOptNum(o) == IF o = None THEN JNull ELSE JNum(o[1])

StrOf(tok) == [i \in 1..Len(tok[2]) |-> Unescape(tok[2][i])]
NumOf(tok) == ParseInt(tok[2])
OptStrOf(tok) == IF tok = JNull THEN None ELSE Some(StrOf(tok))
OptNumOf(tok) == IF tok = JNull THEN None ELSE Some(NumOf(tok))

SubTaskKeys ==
    <<"id", "goal_title", "description", "order", "estimate_minutes",
      "scheduled_start", "scheduled_end">>

SubTaskTokens(d) ==
    <<Punct("{"),
      Key("id"), JStr(d.id),
      Key("goal_title"), JStr(d.goal_title),
      Key("description"), JStr(d.description),
      Key("order"), JNum(d.order),
      Key("estimate_minutes"), JOptNum(d.estimate_minutes),
      Key("scheduled_start"), JOptStr(d.scheduled_start),
      Key("scheduled_end"), JOptStr(d.scheduled_end),
      Punct("}")>>

RECURSIVE ListTokens(_)
ListTokens(ds) ==
    IF ds = <<>> THEN <<>> ELSE SubTaskTokens(Head(ds)) \o ListTokens(Tail(ds))

HeadTokens(payload) ==
    <<Punct("{"),
      Key("saved_at"), JStr(payload.saved_at),
      Key("schedule"), Punct("{"),
      Key("goal"), Punct("{"),
      Key("title"), JStr(payload.schedule.goal.title),
      Key("description"), JStr(payload.schedule.goal.description),
      Punct("}"),
      Key("subtasks"), Punct("[")>>

TailTokens == <<Punct("]"), Punct("}"), Punct("}")>>

\* json.dumps(payload, indent=2)
json_dumps(payload) ==
    HeadTokens(payload) \o ListTokens(payload.schedule.subtasks) \o TailTokens

EmptyHead == HeadTokens([saved_at |-> <<>>, schedule |-> EmptySchedule])

HeadLen == Len(EmptyHead)
ObjLen == 2 * Len(SubTaskKeys) + 2
TailLen == Len(TailTokens)

IsValue(tok, kinds) == Len(tok) >= 1 /\ tok[1] \in kinds

\* The text is a complete JSON document (of the shape json_dumps writes).
WellFormed(toks) ==
    /\ Len(toks) >= HeadLen + TailLen
    /\ (Len(toks) - HeadLen - TailLen) % ObjLen = 0
    /\ \A i \in {1, 2, 4, 5, 6, 7, 8, 10, 12, 13, 14} :
          toks[i] = EmptyHead[i]
    /\ \A i \in {3, 9, 11} : IsValue(toks[i], {"str"})
    /\ SubSeq(toks, Len(toks) - TailLen + 1, Len(toks)) = TailTokens
    /\ \A j \in 0..((Len(toks) - HeadLen - TailLen) \div ObjLen - 1) :
          LET b == HeadLen + j * ObjLen
          IN  /\ toks[b + 1] = Punct("{")
              /\ toks[b + ObjLen] = Punct("}")
              /\ \A f \in 1..7 : toks[b + 2 * f] = Key(SubTaskKeys[f])
              /\ \A f \in {1, 2, 3} : IsValue(toks[b + 2 * f + 1], {"str"})
              /\ IsValue(toks[b + 9], {"num"})
              /\ IsValue(toks[b + 11], {"num", "null"})
              /\ \A f \in {6, 7} : IsValue(toks[b + 2 * f + 1], {"str", "null"})

SubTaskOf(toks, b) ==
    [id |-> StrOf(toks[b + 3]),
     goal_title |-> StrOf(toks[b + 5]),
     description |-> StrOf(toks[b + 7]),
     order |-> NumOf(toks[b + 9]),
     estimate_minutes |-> OptNumOf(toks[b + 11]),
     scheduled_start |-> OptStrOf(toks[b + 13]),
     scheduled_end |-> OptStrOf(toks[b + 15])]

\* json.loads(content), for a well-formed text
json_loads(toks) ==
    [saved_at |-> StrOf(toks[3]),
     schedule |->
        [goal |-> [title |-> StrOf(toks[9]), description |-> StrOf(toks[11])],
         subtasks |-> [j \in 1..((Len(toks) - HeadLen - TailLen) \div ObjLen) |->
                          SubTaskOf(toks, HeadLen + (j - 1) * ObjLen)]]]

-----------------------------------------------------------------------------
(* The store: the record at the output path *)

Absent == [exists |-> FALSE, content |-> <<>>]
Record(toks) == [exists |-> TRUE, content |-> toks]

\* When the previous record was saved, and when this run saves.
OldTime == 8 * 60
Nows == {9 * 60}

\* A record an earlier run saved.
OldSchedule ==
    Schedule(Goal(<<"o">>, <<>>), <<[SubTask(TaskId(1), <<"o">>, <<"1", DOT, "x">>, 1) EXCEPT
                          !.scheduled_start = Some(OldTime),
                          !.scheduled_end = Some(OldTime + DefaultDuration)]>>)

Payload(now, sched) == [saved_at |-> IsoFormat(now), schedule |-> model_dump(sched)]

OldRecord == Record(json_dumps(Payload(OldTime, OldSchedule)))

NoResult == [kind |-> "none", at |-> "", value |-> EmptySchedule]
Raised(kind, at) == [kind |-> kind, at |-> at, value |-> EmptySchedule]
Returned(sched) == [kind |-> "ok", at |-> "return", value |-> sched]

-----------------------------------------------------------------------------
(* async_io.py: save_schedule *)

\* Lines 20-28: build json_str, then suspend in anyio.open_file(path, "w").
SaveBegin(now) ==
    /\ json_str' = json_dumps(Payload(now, schedule))
    /\ buffer' = <<>>
    /\ savePc' = "open"

\* Mutant: the file opened in mode "a", which keeps what is there.
SaveOpen_Append ==
    /\ savePc = "open"
    /\ file' = IF file.exists THEN file ELSE Record(<<>>)
    /\ savePc' = "write"
    /\ UNCHANGED <<pc, planner_text, kickoff, schedule, reparsed, json_str, buffer,
                   notifyPc, notifyIdx, attempts, pretty, loadPc, handle, loadResult>>

\* open(path, "w") creates the file or truncates it.
SaveOpen ==
    /\ savePc = "open"
    /\ file' = Record(<<>>)
    /\ savePc' = "write"
    /\ UNCHANGED <<pc, planner_text, kickoff, schedule, reparsed, json_str, buffer,
                   notifyPc, notifyIdx, attempts, pretty, loadPc, handle, loadResult>>

\* await f.write(json_str): the text goes to the file object's buffer.
SaveWrite ==
    /\ savePc = "write"
    /\ buffer' = json_str
    /\ savePc' = "close"
    /\ UNCHANGED <<pc, planner_text, kickoff, schedule, reparsed, file, json_str,
                   notifyPc, notifyIdx, attempts, pretty, loadPc, handle, loadResult>>

\* Leaving the async with block closes the file, which flushes the buffer.
SaveClose ==
    /\ savePc = "close"
    /\ file' = Record(file.content \o buffer)
    /\ buffer' = <<>>
    /\ savePc' = "done"
    /\ UNCHANGED <<pc, planner_text, kickoff, schedule, reparsed, json_str,
                   notifyPc, notifyIdx, attempts, pretty, loadPc, handle, loadResult>>

\* What a task cancelled inside save_schedule can leave at the path: the
\* CancelledError is raised at the current await while the worker thread's
\* open() or write() has run or not.
CancelledFiles ==
    IF savePc = "open" THEN {file, Record(<<>>)}
    ELSE IF savePc = "write" THEN {Record(<<>>), Record(json_str)}
    ELSE IF savePc = "close" THEN {Record(file.content \o buffer)}
    ELSE {file}

-----------------------------------------------------------------------------
(* async_io.py: mock_async_calendar_block *)

NumTasks == Len(schedule.subtasks)

\* One iteration of the loop: the sleep returns and the reservation is
\* attempted (the print); it succeeds or raises.  Nothing catches a raise.
Reserve(ok) ==
    /\ pc = "gather"
    /\ notifyPc = "run"
    /\ attempts' = [attempts EXCEPT ![notifyIdx] = @ + 1]
    /\ IF ok
       THEN /\ notifyIdx' = notifyIdx + 1
            /\ notifyPc' = IF notifyIdx = NumTasks THEN "done" ELSE "run"
       ELSE /\ notifyIdx' = notifyIdx
            /\ notifyPc' = "raised"
    /\ UNCHANGED <<pc, planner_text, kickoff, schedule, reparsed, file, json_str, buffer,
                   savePc, pretty, loadPc, handle, loadResult>>

-----------------------------------------------------------------------------
(* agents.py: plan_and_execute;  main.py: async_main *)

\* The planner texts a run draws from.
RunTexts ==
    { <<>>,
      <<"1", DOT>>,
      <<"x", NL, "1", DOT>>,
      <<"1", DOT, NL, "1", DOT, "x">>,
      <<DASH, SP, "1", DOT, "x", DASH, TAB, NL, "x", NL, "2", DOT, NL, "3", DOT>> }

\* crew.kickoff(...) returns a text or raises; plan_and_execute has no handler,
\* and neither has async_main.
Kickoff ==
    /\ pc = "start"
    /\ \/ /\ \E text \in RunTexts : planner_text' = text
          /\ kickoff' = "ok"
          /\ pc' = "kickoff_returned"
       \/ /\ kickoff' = "failed"
          /\ pc' = "raised"
          /\ UNCHANGED planner_text
    /\ UNCHANGED <<schedule, reparsed, file, json_str, buffer, savePc, notifyPc,
                   notifyIdx, attempts, pretty, loadPc, handle, loadResult>>

\* plan_and_execute, lines 162-171.
Plan ==
    /\ pc = "kickoff_returned"
    /\ schedule' = _schedule_from_executor_output(
                       planner_text, schedule.goal,
                       _subtasks_from_llm_output(planner_text, schedule.goal))
    /\ pc' = "planned"
    /\ UNCHANGED <<planner_text, kickoff, reparsed, file, json_str, buffer, savePc,
                   notifyPc, notifyIdx, attempts, pretty, loadPc, handle, loadResult>>

\* schedule.with_time_blocks()
TimeBlock ==
    /\ pc = "planned"
    /\ \E start \in Nows : schedule' = with_time_blocks(schedule, start)
    /\ pc' = "blocked"
    /\ UNCHANGED <<planner_text, kickoff, reparsed, file, json_str, buffer, savePc,
                   notifyPc, notifyIdx, attempts, pretty, loadPc, handle, loadResult>>

\* asyncio.gather(save_schedule(...), mock_async_calendar_block(...)): both
\* run up to their first suspension.
Dispatch ==
    /\ pc = "blocked"
    /\ \E now \in Nows : SaveBegin(now)
    /\ notifyPc' = IF NumTasks = 0 THEN "done" ELSE "run"
    /\ notifyIdx' = 1
    /\ attempts' = [i \in 1..NumTasks |-> 0]
    /\ pc' = "gather"
    /\ UNCHANGED <<planner_text, kickoff, schedule, reparsed, file, pretty,
                   loadPc, handle, loadResult>>

Estimate(task) ==
    IF task.estimate_minutes = None
    THEN <<"unknown duration">>
    ELSE Decimal(task.estimate_minutes[1]) \o <<" min">>

\* Lines 65-72: the readable export.
PrettyLines(sched) ==
    [i \in 1..Len(sched.subtasks) |->
        <<Decimal(i), sched.subtasks[i].description,
          IsoFormat(sched.subtasks[i].scheduled_start[1]), Estimate(sched.subtasks[i])>>]

\* gather returns once both have returned; the export follows.
GatherReturn ==
    /\ pc = "gather"
    /\ savePc = "done"
    /\ notifyPc = "done"
    /\ pretty' = <<schedule.goal.title>> \o PrettyLines(schedule)
    /\ pc' = "done"
    /\ UNCHANGED <<planner_text, kickoff, schedule, reparsed, file, json_str, buffer,
                   savePc, notifyPc, notifyIdx, attempts, loadPc, handle, loadResult>>

\* gather has no return_exceptions: the first exception leaves gather and
\* async_main, and the event loop's shutdown cancels what still runs.
GatherRaise ==
    /\ pc = "gather"
    /\ notifyPc = "raised"
    /\ pc' = "raised"
    /\ \E f \in CancelledFiles : file' = f
    /\ savePc' = IF savePc = "done" THEN "done" ELSE "cancelled"
    /\ buffer' = <<>>
    /\ UNCHANGED <<planner_text, kickoff, schedule, reparsed, json_str,
                   notifyPc, notifyIdx, attempts, pretty, loadPc, handle, loadResult>>

InitRest ==
    /\ reparsed = <<>>
    /\ json_str = <<>>
    /\ buffer = <<>>
    /\ savePc = "idle"
    /\ notifyPc = "idle"
    /\ notifyIdx = 0
    /\ attempts = <<>>
    /\ pretty = <<>>
    /\ loadPc = "idle"
    /\ handle = <<>>
    /\ loadResult = NoResult

Init ==
    /\ pc = "start"
    /\ planner_text = <<>>
    /\ kickoff = "pending"
    /\ \E g \in Goals : schedule = Schedule(g, <<>>)
    /\ file \in {Absent, OldRecord}
    /\ InitRest

Next ==
    \/ Kickoff
    \/ Plan
    \/ TimeBlock
    \/ Dispatch
    \/ SaveOpen
    \/ SaveWrite
    \/ SaveClose
    \/ \E ok \in BOOLEAN : Reserve(ok)
    \/ GatherReturn
    \/ GatherRaise

Spec == Init /\ [][Next]_vars

-----------------------------------------------------------------------------
(* The parser on every bounded text *)

Texts == UNION {[1..n -> Chars] : n \in 0..MaxLen}

\* A second pass of the parser over the descriptions it produced.
Reparse ==
    /\ pc = "planned"
    /\ reparsed' = _subtasks_from_llm_output(
                       Join(Descriptions(schedule.subtasks)), schedule.goal)
    /\ pc' = "reparsed"
    /\ UNCHANGED <<planner_text, kickoff, schedule, file, json_str, buffer, savePc,
                   notifyPc, notifyIdx, attempts, pretty, loadPc, handle, loadResult>>

InitParser ==
    /\ pc = "kickoff_returned"
    /\ planner_text \in Texts \cup RunTexts
    /\ kickoff = "ok"
    /\ \E g \in Goals : schedule = Schedule(g, <<>>)
    /\ file = Absent
    /\ InitRest

NextParser == Plan \/ Reparse

SpecParser == InitParser /\ [][NextParser]_vars

-----------------------------------------------------------------------------
(* async_io.py: load_schedule, and the store used by save and load in turn *)

\* Mutant: a missing record loads as an empty Schedule.
LoadBegin_Default ==
    /\ pc = "store"
    /\ loadPc \in {"idle", "done"}
    /\ savePc \in {"idle", "done"}
    /\ IF file.exists
       THEN /\ loadPc' = "open"
            /\ loadResult' = NoResult
       ELSE /\ loadPc' = "done"
            /\ loadResult' = Returned(EmptySchedule)
    /\ handle' = <<>>
    /\ UNCHANGED <<pc, planner_text, kickoff, schedule, reparsed, file, json_str, buffer,
                   savePc, notifyPc, notifyIdx, attempts, pretty>>

\* Lines 36-39: the existence check, then the suspension in anyio.open_file.
LoadBegin ==
    /\ pc = "store"
    /\ loadPc \in {"idle", "done"}
    /\ savePc \in {"idle", "done"}
    /\ IF file.exists
       THEN /\ loadPc' = "open"
            /\ loadResult' = NoResult
       ELSE /\ loadPc' = "done"
            /\ loadResult' = Raised("FileNotFoundError", "exists")
    /\ handle' = <<>>
    /\ UNCHANGED <<pc, planner_text, kickoff, schedule, reparsed, file, json_str, buffer,
                   savePc, notifyPc, notifyIdx, attempts, pretty>>

\* open(path, "r") raises FileNotFoundError when the file is gone by now.
LoadOpen ==
    /\ loadPc = "open"
    /\ IF file.exists
       THEN /\ loadPc' = "read"
            /\ handle' = file.content
            /\ UNCHANGED loadResult
       ELSE /\ loadPc' = "done"
            /\ loadResult' = Raised("FileNotFoundError", "open")
            /\ UNCHANGED handle
    /\ UNCHANGED <<pc, planner_text, kickoff, schedule, reparsed, file, json_str, buffer,
                   savePc, notifyPc, notifyIdx, attempts, pretty>>

\* Lines 40-44: read, json.loads, raw["schedule"], model_validate.
LoadRead ==
    /\ loadPc = "read"
    /\ loadResult' = IF WellFormed(handle)
                     THEN Returned(model_validate(json_loads(handle).schedule))
                     ELSE Raised("JSONDecodeError", "loads")
    /\ loadPc' = "done"
    /\ handle' = <<>>
    /\ UNCHANGED <<pc, planner_text, kickoff, schedule, reparsed, file, json_str, buffer,
                   savePc, notifyPc, notifyIdx, attempts, pretty>>

\* A caller saves its Schedule (not while a load is under way).
SaveStart ==
    /\ pc = "store"
    /\ savePc = "idle"
    /\ loadPc \in {"idle", "done"}
    /\ \E now \in Nows : SaveBegin(now)
    /\ UNCHANGED <<pc, planner_text, kickoff, schedule, reparsed, file,
                   notifyPc, notifyIdx, attempts, pretty, loadPc, handle, loadResult>>

\* Something else removes the record (between a load's check and its open,
\* or at any other time no save is under way).
RemoveRecord ==
    /\ pc = "store"
    /\ file.exists
    /\ savePc \in {"idle", "done"}
    /\ file' = Absent
    /\ UNCHANGED <<pc, planner_text, kickoff, schedule, reparsed, json_str, buffer,
                   savePc, notifyPc, notifyIdx, attempts, pretty, loadPc, handle, loadResult>>

Descs == {<<"1", DOT>>, <<"2", DOT, TAB, "x", DASH>>}
Estimates == {None, Some(15)}
Blocks == {<<None, None>>, <<Some(9 * 60 + 5), Some(10 * 60 + 50)>>}

\* The Schedules a caller saves: every optional field absent or present.
Schedules ==
    { Schedule(g, [i \in 1..n |->
          [SubTask(TaskId(i), g.title, f[i][1], i) EXCEPT
              !.estimate_minutes = f[i][2],
              !.scheduled_start = f[i][3][1],
              !.scheduled_end = f[i][3][2]]]) :
      g \in Goals, n \in 0..MaxSubtasks, f \in [1..MaxSubtasks -> Descs \X Estimates \X Blocks] }

InitStore ==
    /\ pc = "store"
    /\ planner_text = <<>>
    /\ kickoff = "ok"
    /\ schedule \in Schedules
    /\ file \in {Absent, OldRecord, Record(<<>>)}
    /\ InitRest

NextStore ==
    \/ SaveStart
    \/ SaveOpen
    \/ SaveWrite
    \/ SaveClose
    \/ LoadBegin
    \/ LoadOpen
    \/ LoadRead
    \/ RemoveRecord

SpecStore == InitStore /\ [][NextStore]_vars

-----------------------------------------------------------------------------
(* Claims *)

Parsed == pc \in {"planned", "reparsed"}

\* C1: the k-th SubTask the parser returns has order k and id "task-k": the
\* position is counted among the retained (numbered) lines only.
C1_RankAmongRetained ==
    Parsed =>
        \A k \in 1..Len(schedule.subtasks) :
            /\ schedule.subtasks[k].order = k
            /\ schedule.subtasks[k].id = TaskId(k)

\* C2: when crew.kickoff fails or returns empty text, plan_and_execute does
\* not fail and the Schedule has zero SubTasks.
C2_PlanningNeverFails ==
    (kickoff = "failed" \/ (kickoff = "ok" /\ planner_text = <<>>)) =>
        /\ pc # "raised"
        /\ schedule.subtasks = <<>>

\* C3: in every reachable state the record at the output path is absent, the
\* complete previous record or the complete new record.
C3_NoPartialRecord ==
    \/ file = Absent
    \/ file = OldRecord
    \/ (savePc # "idle" /\ file = Record(json_str))

\* C4: in a run in which a notification attempt failed, save_schedule has
\* still written the complete record when the run ends.
C4_SaveSurvivesNotifyFailure ==
    (pc = "raised" /\ notifyPc = "raised") => file = Record(json_str)

\* C5: once mock_async_calendar_block has ended, normally or by a failed
\* reservation, a reservation was attempted exactly once for every SubTask.
C5_EveryTaskAttempted ==
    notifyPc \in {"done", "raised"} =>
        \A i \in 1..NumTasks : attempts[i] = 1

\* C6: a load that reads the record after a completed save returns a Schedule
\* equal to the saved one in every field, whatever was at the path before.
C6_RoundTrip ==
    [][(loadPc = "read" /\ loadPc' = "done" /\ savePc = "done")
           => loadResult' = Returned(schedule)]_vars

C6_Witness ==
    /\ loadPc = "done"
    /\ savePc = "done"
    /\ loadResult = Returned(schedule)
    /\ \E i, j \in 1..Len(schedule.subtasks) :
          /\ schedule.subtasks[i].estimate_minutes = None
          /\ schedule.subtasks[i].scheduled_start = None
          /\ schedule.subtasks[j].estimate_minutes # None
          /\ schedule.subtasks[j].scheduled_end # None

\* C7: parsing the descriptions of the parser's output, joined by line
\* breaks, gives the same descriptions in the same order.
C7_Idempotent ==
    pc = "reparsed" => Descriptions(reparsed) = Descriptions(schedule.subtasks)

\* C8: the parser returns one SubTask per line that, with bullet characters
\* and then surrounding whitespace stripped, starts with digits and a period,
\* in line order; the description is that stripped line, the goal_title the
\* Goal's title; every other line is dropped.
C8_ParserContract ==
    Parsed =>
        LET text == planner_text
            n == Len(text)
            starts == {i \in 1..n : i = 1 \/ text[i - 1] = NL}
            EndOf(i) == CHOOSE j \in i..(n + 1) :
                            /\ j = n + 1 \/ text[j] = NL
                            /\ \A k \in i..(j - 1) : text[k] # NL
            Line(i) == SubSeq(text, i, EndOf(i) - 1)
            Trim(l, cs) ==
                LET keep == {i \in 1..Len(l) : l[i] \notin cs}
                IN  IF keep = {} THEN <<>>
                    ELSE SubSeq(l, CHOOSE a \in keep : \A b \in keep : a <= b,
                                   CHOOSE a \in keep : \A b \in keep : a >= b)
            Core(l) == Trim(Trim(l, {DASH, SP}), {SP, TAB, NL})
            Numbered(l) ==
                \E k \in 1..(Len(l) - 1) :
                    /\ \A j \in 1..k : l[j] \in Digits
                    /\ l[k + 1] = DOT
            retained == {i \in starts : Numbered(Core(Line(i)))}
            Nth(k) == CHOOSE i \in retained : Cardinality({j \in retained : j <= i}) = k
        IN  /\ Len(schedule.subtasks) = Cardinality(retained)
            /\ \A k \in 1..Len(schedule.subtasks) :
                  /\ schedule.subtasks[k].description = Core(Line(Nth(k)))
                  /\ schedule.subtasks[k].goal_title = schedule.goal.title

C8_Witness ==
    /\ pc = "planned"
    /\ Len(schedule.subtasks) = 3
    /\ Len(SplitLines(planner_text)) = 4
    /\ schedule.subtasks[1].description # SplitLines(planner_text)[1]

\* C9: load_schedule on a path with no record raises FileNotFoundError, at
\* the existence check or at the open, and no step of a load changes the store.
C9_NotFound ==
    [][(loadPc' # loadPc \/ loadResult' # loadResult) =>
          /\ (loadPc \in {"idle", "done", "open"} /\ ~file.exists) =>
                 (loadPc' = "done" /\ loadResult'.kind = "FileNotFoundError")
          /\ file' = file]_vars

C9_Witness ==
    /\ loadPc = "done"
    /\ ~file.exists
    /\ loadResult = Raised("FileNotFoundError", "open")

\* C10: in the Schedule plan_and_execute returns, ids are pairwise distinct
\* and orders are positive and strictly increasing along the list.
C10_DistinctIncreasing ==
    Parsed =>
        LET st == schedule.subtasks
        IN  /\ \A i \in 1..Len(st) : st[i].order >= 1
            /\ \A i, j \in 1..Len(st) :
                  i < j => (st[i].id # st[j].id /\ st[i].order < st[j].order)

C10_Witness ==
    /\ pc = "planned"
    /\ Len(schedule.subtasks) >= 2
    /\ schedule.subtasks[2].order > schedule.subtasks[1].order + 1

====
